---------------------------- MODULE Spec2Model ----------------------------
(***************************************************************************)
(* TagSense (src/app.py): batch tagging of comments through a remote       *)
(* model.  analyze_all slices the comments into batches of BATCH_SIZE,     *)
(* submits every batch to a pool of MAX_WORKERS threads, and the calling   *)
(* thread writes each batch's records into a pre-sized output list as the  *)
(* futures complete.  analyze_batch calls the remote model once and parses *)
(* the response text line by line into (main, sub) pairs.                  *)
(*                                                                         *)
(* A text is a sequence of characters, a character a one-token string.     *)
(* Characters outside ASCII are written by their code point ("U6C7A").     *)
(***************************************************************************)
EXTENDS Integers, Sequences, FiniteSets, TLC

\* ------------------------------------------------------------ constants
BATCH_SIZE == 20
MAX_WORKERS == 4
\* str(c)[:200]
SNIPPET_LEN == 200

\* ---------------------------------------------------------------- bounds
\* Largest number of comments of a run: one batch more than the pool has
\* threads.
MaxTotal == 81
\* Longest run in which every call draws every outcome of the environment.
MaxVaried == 45
\* Characters typed after a seed text in the parser's specification.
MaxTyped == 3
\* Largest expected item count in the parser's specification.
MaxItems == 3

\* ------------------------------------------------------- text primitives
\* The record ("", "") the code uses for "no tags".
EmptyRec == << <<>>, <<>> >>

IsSpace(c) == c \in {" ", "\t", "\n", "\r"}

RECURSIVE FirstNonSpace(_, _)
FirstNonSpace(s, i) ==
    IF i > Len(s) \/ ~IsSpace(s[i]) THEN i ELSE FirstNonSpace(s, i + 1)

RECURSIVE LastNonSpace(_, _)
LastNonSpace(s, i) ==
    IF i < 1 \/ ~IsSpace(s[i]) THEN i ELSE LastNonSpace(s, i - 1)

\* str.strip(): leading and trailing whitespace removed.
Strip(s) == SubSeq(s, FirstNonSpace(s, 1), LastNonSpace(s, Len(s)))

\* Index of the first c in s at or after i, 0 when there is none.
Find(s, c, i) ==
    LET hits == {k \in i..Len(s) : s[k] = c}
    IN  IF hits = {} THEN 0 ELSE CHOOSE k \in hits : \A j \in hits : k <= j

\* s.split(c, 1): one part when c does not occur, else the text before the
\* first c and the text after it.
Split1(s, c) ==
    LET k == Find(s, c, 1)
    IN  IF k = 0 THEN <<s>>
        ELSE <<SubSeq(s, 1, k - 1), SubSeq(s, k + 1, Len(s))>>

\* s.split(c): every part between occurrences of c (at least one part).
RECURSIVE SplitAll(_, _)
SplitAll(s, c) ==
    LET k == Find(s, c, 1)
    IN  IF k = 0 THEN <<s>>
        ELSE <<SubSeq(s, 1, k - 1)>> \o SplitAll(SubSeq(s, k + 1, Len(s)), c)

\* text.splitlines(): the lines between "\n"; no empty last line, and no
\* line at all for the empty text.
RECURSIVE SplitLines(_)
SplitLines(t) ==
    IF t = <<>> THEN <<>>
    ELSE LET k == Find(t, "\n", 1)
         IN  IF k = 0 THEN <<t>>
             ELSE <<SubSeq(t, 1, k - 1)>> \o SplitLines(SubSeq(t, k + 1, Len(t)))

\* [x for x in seq if keep(x)] for keep = "x.strip() is non-empty".
RECURSIVE NonBlank(_)
NonBlank(seq) ==
    IF seq = <<>> THEN <<>>
    ELSE IF Strip(Head(seq)) = <<>> THEN NonBlank(Tail(seq))
         ELSE <<Head(seq)>> \o NonBlank(Tail(seq))

\* seq[:n]
Take(seq, n) == SubSeq(seq, 1, IF n < Len(seq) THEN n ELSE Len(seq))

\* The mutant of JoinComma: the separator is "," alone.
RECURSIVE JoinCommaNoSpace(_)
JoinCommaNoSpace(parts) ==
    IF parts = <<>> THEN <<>>
    ELSE IF Len(parts) = 1 THEN parts[1]
         ELSE parts[1] \o <<",">> \o JoinCommaNoSpace(Tail(parts))

\* ", ".join(parts)
RECURSIVE JoinComma(_)
JoinComma(parts) ==
    IF parts = <<>> THEN <<>>
    ELSE IF Len(parts) = 1 THEN parts[1]
         ELSE parts[1] \o <<",", " ">> \o JoinComma(Tail(parts))

DigitChars == <<"0", "1", "2", "3", "4", "5", "6", "7", "8", "9">>

\* str(i) for i >= 0
RECURSIVE Digits(_)
Digits(i) ==
    IF i < 10 THEN <<DigitChars[i + 1]>>
    ELSE Digits(i \div 10) \o <<DigitChars[(i % 10) + 1]>>

\* --------------------------------------------------------- analyze_batch
\* The body of the per-line try block: exc is TRUE where Python raises
\* (ValueError on unpacking one part, IndexError on [1] of one part).
split_fields(line) ==
    LET dot == Split1(line, ".")
    IN  IF Len(dot) < 2 THEN [exc |-> TRUE, main |-> <<>>, sub |-> <<>>]
        ELSE
        LET bar == Split1(dot[2], "|")
        IN  IF Len(bar) < 2 THEN [exc |-> TRUE, main |-> <<>>, sub |-> <<>>]
            ELSE
            LET mainSplit == Split1(bar[1], ":")
                subSplit  == Split1(bar[2], ":")
            IN  IF Len(mainSplit) < 2 \/ Len(subSplit) < 2
                THEN [exc |-> TRUE, main |-> <<>>, sub |-> <<>>]
                ELSE
                LET pieces == SplitAll(subSplit[2], ",")
                    subs   == Take([i \in 1..Len(pieces) |-> Strip(pieces[i])], 2)
                IN  [exc  |-> FALSE,
                     main |-> Strip(mainSplit[2]),
                     sub  |-> JoinComma(subs)]

\* The mutant of parse_line: the per-line except clause is missing.
parse_line_no_except(line) ==
    LET f == split_fields(line)
    IN  [exc |-> f.exc, rec |-> <<f.main, f.sub>>]

\* One iteration of the loop over the lines: try, except, the pair appended.
parse_line(line) ==
    LET f == split_fields(line)
    IN  IF f.exc THEN [exc |-> FALSE, rec |-> EmptyRec]
        ELSE [exc |-> FALSE, rec |-> <<f.main, f.sub>>]

\* The mutant of response_lines: the lines are not cut to n.
response_lines_all(text, n) == NonBlank(SplitLines(text))

\* The lines the loop iterates over: the non-blank lines, at most n of them.
response_lines(text, n) == Take(NonBlank(SplitLines(text)), n)

\* The mutant of pad_results: no padding loop.
pad_results_none(results, n) == results

\* while len(results) < len(comments): results.append(("", ""))
pad_results(results, n) ==
    results \o [i \in 1..(IF n > Len(results) THEN n - Len(results) ELSE 0) |-> EmptyRec]

\* The mutant of parse_response: the loop ends at the first line that fails.
parse_response_stop_at_failure(text, n) ==
    LET lines == response_lines(text, n)
        bad   == {i \in 1..Len(lines) : split_fields(lines[i]).exc}
        kept  == IF bad = {} THEN Len(lines)
                 ELSE CHOOSE i \in bad : \A j \in bad : i <= j
    IN  [raised |-> FALSE,
         value  |-> pad_results([i \in 1..kept |-> parse_line(lines[i]).rec], n)]

\* The mutant of parse_response: a record goes to the item its line names.
parse_response_by_number(text, n) ==
    LET lines == response_lines(text, n)
        named(i) == {j \in 1..Len(lines) : Strip(Split1(lines[j], ".")[1]) = Digits(i)}
    IN  [raised |-> FALSE,
         value  |-> [i \in 1..n |->
                        IF named(i) = {} THEN EmptyRec
                        ELSE parse_line(lines[CHOOSE j \in named(i) : TRUE]).rec]]

\* The parsing part of analyze_batch for n comments: raised is TRUE where an
\* exception leaves the function, value is the list returned otherwise.
parse_response(text, n) ==
    LET lines  == response_lines(text, n)
        parsed == [i \in 1..Len(lines) |-> parse_line(lines[i])]
    IN  IF \E i \in 1..Len(lines) : parsed[i].exc
        THEN [raised |-> TRUE, value |-> <<>>]
        ELSE [raised |-> FALSE,
              value  |-> pad_results([i \in 1..Len(lines) |-> parsed[i].rec], n)]


\* except Exception: return [("", "") for _ in comments]
api_failure_result(batch) == [i \in 1..Len(batch) |-> EmptyRec]

\* text = raw.strip() if hasattr(raw, "strip") else str(raw)
response_text(outcome) ==
    IF outcome.strips THEN Strip(outcome.raw) ELSE outcome.raw

\* The mutant of snippet: newlines stay in the text.
snippet_keep_newlines(c) == Take(c, SNIPPET_LEN)

\* str(c)[:200].replace("\n", " ")
snippet(c) ==
    LET cut == Take(c, SNIPPET_LEN)
    IN  [k \in 1..Len(cut) |-> IF cut[k] = "\n" THEN " " ELSE cut[k]]

\* The first line of the prompt and the empty line after it; the token
\* "INSTRUCTION" stands for the sentence of line 46, which has no newline.
PromptHead == <<"INSTRUCTION", "\n", "\n">>

\* "\n出力フォーマット:\n1. メインタグ: <タグ> | サブタグ: <タグ1>, <タグ2>\n…\n"
PromptTail ==
    <<"\n", "U51FA", "U529B", "U30D5", "U30A9", "U30FC", "U30DE", "U30C3", "U30C8", ":",
      "\n", "1", ".", " ", "U30E1", "U30A4", "U30F3", "U30BF", "U30B0", ":", " ",
      "<", "U30BF", "U30B0", ">", " ", "|", " ",
      "U30B5", "U30D6", "U30BF", "U30B0", ":", " ",
      "<", "U30BF", "U30B0", "1", ">", ",", " ", "<", "U30BF", "U30B0", "2", ">",
      "\n", "U2026", "\n">>

\* for i, s in enumerate(snippets, 1): prompt += f"{i}. {s}\n"
RECURSIVE numbered_lines(_, _)
numbered_lines(batch, i) ==
    IF i > Len(batch) THEN <<>>
    ELSE Digits(i) \o <<".", " ">> \o snippet(batch[i]) \o <<"\n">>
            \o numbered_lines(batch, i + 1)

\* The prompt of analyze_batch for the comments of one batch.
build_prompt(batch) == PromptHead \o numbered_lines(batch, 1) \o PromptTail

\* The mutant of analyze_batch: a failed remote call is tried once more.
analyze_batch_retry(batch, outcome) ==
    IF outcome.kind = "raise"
    THEN [raised |-> TRUE, value |-> <<>>, calls |-> 0, prompt |-> <<>>]
    ELSE IF outcome.kind = "api_error"
    THEN [raised |-> FALSE, value |-> api_failure_result(batch), calls |-> 2,
          prompt |-> build_prompt(batch)]
    ELSE LET r == parse_response(response_text(outcome), Len(batch))
         IN  [raised |-> r.raised, value |-> r.value, calls |-> 1,
              prompt |-> build_prompt(batch)]

\* analyze_batch(comments, key) under one outcome of its environment:
\*   kind "raise"     - an exception before the try block (client construction)
\*   kind "api_error" - messages.create raises inside the try block
\*   kind "text"      - messages.create answers with the text raw
\* raised: the call ends in an exception; value: the list returned;
\* calls: remote calls issued; prompt: the prompt sent with the call.
analyze_batch(batch, outcome) ==
    IF outcome.kind = "raise"
    THEN [raised |-> TRUE, value |-> <<>>, calls |-> 0, prompt |-> <<>>]
    ELSE IF outcome.kind = "api_error"
    THEN [raised |-> FALSE, value |-> api_failure_result(batch), calls |-> 1,
          prompt |-> build_prompt(batch)]
    ELSE LET r == parse_response(response_text(outcome), Len(batch))
         IN  [raised |-> r.raised, value |-> r.value, calls |-> 1,
              prompt |-> build_prompt(batch)]

\* ----------------------------------------------------------- environment
\* The comment at 0-based position p of the input: a text naming p.
CommentAt(p) == <<"c">> \o Digits(p)

\* The tag a well-formed response gives the comment at position p.
TagAt(p) == <<"t">> \o Digits(p)

SubAB == <<"a", ",", " ", "b">>

\* A response line in the format of the prompt for item i (1-based) of the
\* batch starting at start: "i. m: t<p> | s: a, b, c".
GoodLine(start, i) ==
    Digits(i) \o <<".", " ", "m", ":", " ">> \o TagAt(start + i - 1)
        \o <<" ", "|", " ", "s", ":", " ", "a", ",", " ", "b", ",", "c">>

RECURSIVE GoodLines(_, _, _)
GoodLines(start, i, n) ==
    IF i > n THEN <<>>
    ELSE GoodLine(start, i) \o <<"\n">> \o GoodLines(start, i + 1, n)

\* A well-formed response for the n items of the batch starting at start.
GoodResponse(start, n) == GoodLines(start, 1, n)

\* A malformed response: a blank line, one well-formed line, one line
\* without any separator, and nothing for the remaining items.
ShortResponse(start) ==
    <<" ", "\n">> \o GoodLine(start, 1) \o <<"\n", "2", " ", "x">>

\* The environment's answers to one call, by name.
RaiseOutcome == [kind |-> "raise", raw |-> <<>>, strips |-> TRUE]
ApiErrorOutcome == [kind |-> "api_error", raw |-> <<>>, strips |-> TRUE]
GoodOutcome(from, n) == [kind |-> "text", raw |-> GoodResponse(from, n), strips |-> TRUE]
ShortOutcome(from) == [kind |-> "text", raw |-> ShortResponse(from), strips |-> TRUE]

\* The outcome named e of the call for the future f.
OutcomeOf(f, e) ==
    IF e = "raise" THEN RaiseOutcome
    ELSE IF e = "api_error" THEN ApiErrorOutcome
    ELSE IF e = "good" THEN GoodOutcome(f.start, Len(f.batch))
    ELSE ShortOutcome(f.start)

\* What the environment may do to a call of a run of n comments: every
\* outcome in a run of at most MaxVaried comments, a failed call or a
\* well-formed response in a longer one.
Envs(n) ==
    IF n <= MaxVaried THEN {"raise", "api_error", "good", "short"}
    ELSE {"api_error", "good"}

\* ------------------------------------------------------------- the state
VARIABLES
    pc,        \* analyze_all: "submit", "collect", "returned"; "off" when not run
    comments,  \* the input list
    out,       \* the output list, out[p + 1] for the 0-based position p
    start,     \* the loop variable of the submission loop
    futures,   \* the submitted futures in submission order, each a record
               \*   start, batch, state, env, raised, result
    ret,       \* the list analyze_all returned
    reordered, \* history: a future was yielded before one submitted earlier
    wlog,      \* history: per position, the futures out[p] was written for
    calls,     \* history: remote calls issued
    ppc,       \* parser run: "build", "done"; "off" when not run
    ptext,     \* parser run: the response text
    pn,        \* parser run: the number of comments of the batch
    pstrips,   \* parser run: whether the response object has strip()
    ptyped,    \* parser run: characters appended to the seed text
    pres       \* parser run: what analyze_batch did

vars == <<pc, comments, out, start, futures, ret, reordered, wlog, calls,
          ppc, ptext, pn, pstrips, ptyped, pres>>

dvars == <<pc, comments, out, start, futures, ret, reordered, wlog, calls>>
pvars == <<ppc, ptext, pn, pstrips, ptyped, pres>>

total == Len(comments)

\* pres before analyze_batch has run.
NoResult == [raised |-> FALSE, value |-> <<>>, calls |-> 0, prompt |-> <<>>]

Min(a, b) == IF a < b THEN a ELSE b

\* The mutant of new_out: sized by the full batches only.
new_out_full_batches(n) == [i \in 1..((n \div BATCH_SIZE) * BATCH_SIZE) |-> EmptyRec]

\* out = [("", "")] * total
new_out(n) == [i \in 1..n |-> EmptyRec]

\* The mutant of slice: the slice loses its first item.
slice_off_by_one(seq, from) == SubSeq(seq, from + 2, Min(from + BATCH_SIZE, Len(seq)))

\* comments[start : start + BATCH_SIZE]
slice(seq, from) == SubSeq(seq, from + 1, Min(from + BATCH_SIZE, Len(seq)))

\* The input of a run of n comments.
InputOf(n) == [i \in 1..n |-> CommentAt(i - 1)]

\* The lengths of the runs explored: the edges of the slicing, the
\* 45 comments of the documented scenario, and the largest run.
Totals ==
    {0, 1, BATCH_SIZE, BATCH_SIZE + 1, 2 * BATCH_SIZE + 5, MaxTotal}

Init ==
    /\ \E n \in Totals : comments = InputOf(n)
    /\ pc = "submit"
    /\ out = new_out(total)
    /\ start = 0
    /\ futures = <<>>
    /\ ret = <<>>
    /\ reordered = FALSE
    /\ wlog = [i \in 1..total |-> <<>>]
    /\ calls = 0
    /\ ppc = "off" /\ ptext = <<>> /\ pn = 0 /\ pstrips = TRUE /\ ptyped = 0
    /\ pres = NoResult

\* ------------------------------------------------------------ analyze_all
Indices == 1..Len(futures)

InFlight == {b \in Indices : futures[b].state = "Dispatched"}

\* The mutant of worker_free: the pool grows without limit.
worker_free_unbounded(n) == TRUE

\* ThreadPoolExecutor(max_workers=MAX_WORKERS): a queued call starts only
\* while fewer than MAX_WORKERS calls are running.
worker_free(n) == n < MAX_WORKERS

\* The mutant of completed: only a future that parsed a response counts.
completed_parsed_only(f) == f.state = "Parsed"

\* A future as_completed can yield: finished, with a result or an exception.
completed(f) == f.state \in {"Parsed", "Failed"}

\* The mutant of exhausted: the loop ends with the first future collected.
exhausted_first(fs) == \E b \in 1..Len(fs) : fs[b].state = "Written"

\* as_completed(futures) has yielded every future.
exhausted(fs) == \A b \in 1..Len(fs) : fs[b].state = "Written"

\* The mutant of collect_start: the k-th result goes to the k-th range.
collect_start_by_arrival(f, fs) ==
    Cardinality({b \in 1..Len(fs) : fs[b].state = "Written"}) * BATCH_SIZE

\* start = futures[fut]
collect_start(f, fs) == f.start

\* The mutant of fail_range: the whole output is cleared.
fail_range_all(from, n) == 0..(n - 1)

\* The mutant of fail_range: the range starts and ends one position late.
fail_range_shifted(from, n) == (from + 1)..Min(from + BATCH_SIZE, n)

\* range(start, min(start + BATCH_SIZE, total))
fail_range(from, n) == from..(Min(from + BATCH_SIZE, n) - 1)

\* The except branch: out[i] = ("", "") for i in the batch's range.
fill_empty(o, from) ==
    LET r == fail_range(from, Len(o))
    IN  [p \in 1..Len(o) |-> IF (p - 1) \in r THEN EmptyRec ELSE o[p]]

\* The try branch hits a position outside the list (IndexError).
try_raises(o, from, res) == from + Len(res) > Len(o)

\* The 0-based positions the try branch assigns before it ends.
try_range(o, from, res) == from..(Min(from + Len(res), Len(o)) - 1)

\* The mutant of try_store: the offset of the batch is dropped.
try_store_no_offset(o, from, res) ==
    [p \in 1..Len(o) |-> IF p <= Len(res) THEN res[p] ELSE o[p]]

\* for i, res in enumerate(batch_res): out[start + i] = res
try_store(o, from, res) ==
    LET r == try_range(o, from, res)
    IN  [p \in 1..Len(o) |-> IF (p - 1) \in r THEN res[p - from] ELSE o[p]]

\* The body of the as_completed loop for the future f of fs: the new
\* output list.
collect_out(o, f, fs) ==
    LET from == collect_start(f, fs)
    IN  IF f.raised THEN fill_empty(o, from)
        ELSE IF try_raises(o, from, f.result)
             THEN fill_empty(try_store(o, from, f.result), from)
             ELSE try_store(o, from, f.result)

\* How often the loop body assigns each 0-based position for f.
collect_writes(o, f, fs) ==
    LET from   == collect_start(f, fs)
        tried  == IF f.raised THEN {} ELSE try_range(o, from, f.result)
        filled == IF f.raised \/ try_raises(o, from, f.result)
                  THEN fail_range(from, Len(o)) ELSE {}
    IN  [p \in 0..(Len(o) - 1) |->
            (IF p \in tried THEN 1 ELSE 0) + (IF p \in filled THEN 1 ELSE 0)]

\* for start in range(0, total, BATCH_SIZE): one iteration.
Submit ==
    /\ pc = "submit"
    /\ start < total
    /\ futures' = Append(futures,
            [start   |-> start,
             batch   |-> slice(comments, start),
             state   |-> "Pending",
             env     |-> "none",
             raised  |-> FALSE,
             result  |-> <<>>])
    /\ start' = start + BATCH_SIZE
    /\ UNCHANGED <<pc, comments, out, ret, reordered, wlog, calls>>
    /\ UNCHANGED pvars

\* The range is exhausted: the main thread enters the as_completed loop.
EndSubmit ==
    /\ pc = "submit"
    /\ start >= total
    /\ pc' = "collect"
    /\ UNCHANGED <<comments, out, start, futures, ret, reordered, wlog, calls>>
    /\ UNCHANGED pvars

\* A pool thread takes the oldest queued call and starts analyze_batch.
Dispatch(b) ==
    /\ pc \in {"submit", "collect"}
    /\ b \in Indices
    /\ futures[b].state = "Pending"
    /\ \A a \in 1..(b - 1) : futures[a].state # "Pending"
    /\ worker_free(Cardinality(InFlight))
    /\ futures' = [futures EXCEPT ![b].state = "Dispatched"]
    /\ UNCHANGED <<pc, comments, out, start, ret, reordered, wlog, calls>>
    /\ UNCHANGED pvars

\* The mutant of Complete: the pool thread stores its result itself.
CompleteAndStore(b, e) ==
    /\ pc \in {"submit", "collect"}
    /\ b \in Indices
    /\ futures[b].state = "Dispatched"
    /\ e \in Envs(total)
    /\ \E r \in {analyze_batch(futures[b].batch, OutcomeOf(futures[b], e))} :
           /\ futures' = [futures EXCEPT
                  ![b].state = IF r.raised \/ e = "api_error"
                               THEN "Failed" ELSE "Parsed",
                  ![b].env = e,
                  ![b].raised = r.raised,
                  ![b].result = r.value]
           /\ calls' = calls + r.calls
           /\ out' = try_store(out, futures[b].start, r.value)
    /\ UNCHANGED <<pc, comments, start, ret, reordered, wlog>>
    /\ UNCHANGED pvars

\* analyze_batch ends in its pool thread under the outcome named e.
Complete(b, e) ==
    /\ pc \in {"submit", "collect"}
    /\ b \in Indices
    /\ futures[b].state = "Dispatched"
    /\ e \in Envs(total)
    /\ \E r \in {analyze_batch(futures[b].batch, OutcomeOf(futures[b], e))} :
           /\ futures' = [futures EXCEPT
                  ![b].state = IF r.raised \/ e = "api_error"
                               THEN "Failed" ELSE "Parsed",
                  ![b].env = e,
                  ![b].raised = r.raised,
                  ![b].result = r.value]
           /\ calls' = calls + r.calls
    /\ UNCHANGED <<pc, comments, out, start, ret, reordered, wlog>>
    /\ UNCHANGED pvars

\* One iteration of "for fut in as_completed(futures)".
Collect(b) ==
    /\ pc = "collect"
    /\ b \in Indices
    /\ completed(futures[b])
    /\ out' = collect_out(out, futures[b], futures)
    /\ wlog' = LET w == collect_writes(out, futures[b], futures)
               IN  [p \in 1..Len(wlog) |->
                       wlog[p] \o [k \in 1..w[p - 1] |-> b]]
    /\ reordered' = (reordered \/ \E a \in 1..(b - 1) : futures[a].state # "Written")
    /\ futures' = [futures EXCEPT ![b].state = "Written"]
    /\ UNCHANGED <<pc, comments, start, ret, calls>>
    /\ UNCHANGED pvars

\* The loop and the with block end: return out.
Return ==
    /\ pc = "collect"
    /\ exhausted(futures)
    /\ pc' = "returned"
    /\ ret' = out
    /\ UNCHANGED <<comments, out, start, futures, reordered, wlog, calls>>
    /\ UNCHANGED pvars

Next ==
    \/ Submit
    \/ EndSubmit
    \/ \E b \in 1..Len(futures) : Dispatch(b)
    \/ \E b \in 1..Len(futures) : Collect(b)
    \/ Return
    \/ \E b \in InFlight : \E e \in Envs(total) : Complete(b, e)

Spec == Init /\ [][Next]_vars

\* The threads run and every remote call ends (the client times out).
FairSpec == Spec /\ WF_vars(Next)

\* ------------------------------------------------- analyze_batch on texts
\* The characters typed into a response text.
Alphabet == {".", ":", "|", ",", " ", "\n", "a"}

\* "メインタグ" and "サブタグ", the labels of the prompt's format.
MainLabel == <<"U30E1", "U30A4", "U30F3", "U30BF", "U30B0">>
SubLabel == <<"U30B5", "U30D6", "U30BF", "U30B0">>

\* "決済", "クレジット", "店頭受取"
Kessai == <<"U6C7A", "U6E08">>
Credit == <<"U30AF", "U30EC", "U30B8", "U30C3", "U30C8">>
Tento == <<"U5E97", "U982D", "U53D7", "U53D6">>

GarbageLine == <<"2", ".", " ", "g", "a", "r", "b", "a", "g", "e">>

\* "1. 決済|クレジット, 店頭受取\n2. garbage\n"
BareText ==
    <<"1", ".", " ">> \o Kessai \o <<"|">> \o Credit \o <<",", " ">> \o Tento
        \o <<"\n">> \o GarbageLine \o <<"\n">>

\* "1. メインタグ: 決済 | サブタグ: クレジット, 店頭受取\n2. garbage\n"
LabelledText ==
    <<"1", ".", " ">> \o MainLabel \o <<":", " ">> \o Kessai \o <<" ", "|", " ">>
        \o SubLabel \o <<":", " ">> \o Credit \o <<",", " ">> \o Tento
        \o <<"\n">> \o GarbageLine \o <<"\n">>

\* Three well-formed lines, numbered 2, 1, 3, for tags x, y, z.
ThreeLines ==
    <<"2", ".", "m", ":", "x", "|", "s", ":", "p", "\n",
      "1", ".", "m", ":", "y", "|", "s", ":", "q", "\n",
      "3", ".", "m", ":", "z", "|", "s", ":", "r">>

\* A well-formed line, a line without any separator, a well-formed line.
BrokenMiddle ==
    <<"1", ".", "m", ":", "x", "|", "s", ":", "p", "\n",
      "g", "a", "r", "b", "a", "g", "e", "\n",
      "3", ".", "m", ":", "z", "|", "s", ":", "r">>

\* The lines for items 2 and 3 only: the line for item 1 is left out.
OmittedFirst ==
    <<"2", ".", "m", ":", "y", "|", "s", ":", "q", "\n",
      "3", ".", "m", ":", "z", "|", "s", ":", "r">>

\* The texts a parser run starts from.
SeedTexts ==
    {<<>>, <<".", ":", "a", "|", ":">>, BareText, LabelledText, ThreeLines,
     BrokenMiddle, OmittedFirst}

PInit ==
    /\ pc = "off"
    /\ comments = <<>>
    /\ out = <<>>
    /\ start = 0
    /\ futures = <<>>
    /\ ret = <<>>
    /\ reordered = FALSE
    /\ wlog = <<>>
    /\ calls = 0
    /\ ppc = "build"
    /\ ptext \in SeedTexts
    /\ pn \in 0..MaxItems
    /\ pstrips \in BOOLEAN
    /\ ptyped = 0
    /\ pres = NoResult

\* The response grows by one character.
Type(c) ==
    /\ ppc = "build"
    /\ ptyped < MaxTyped
    /\ ptext' = Append(ptext, c)
    /\ ptyped' = ptyped + 1
    /\ UNCHANGED <<ppc, pn, pstrips, pres>>
    /\ UNCHANGED dvars

\* analyze_batch runs on pn comments and the remote model answers ptext.
RunBatch ==
    /\ ppc = "build"
    /\ pres' = analyze_batch(InputOf(pn),
                    [kind |-> "text", raw |-> ptext, strips |-> pstrips])
    /\ ppc' = "done"
    /\ UNCHANGED <<ptext, pn, pstrips, ptyped>>
    /\ UNCHANGED dvars

PNext ==
    \/ \E c \in Alphabet : Type(c)
    \/ RunBatch

ParseSpec == PInit /\ [][PNext]_vars

\* ---------------------------------------------- analyze_batch on comments
\* Comments of a batch: a short one, one with newlines inside and at its
\* end, and one of 202 characters with newlines at 199 and 202.
SampleShort == <<"c", "0">>
SampleLines == <<"a", "\n", "\n", "b", "\n">>
SampleLong == [k \in 1..198 |-> "x"] \o <<"\n", "y", "z", "\n">>
SampleComments == {SampleShort, SampleLines, SampleLong}

\* The batches of at most MaxItems sample comments.
SampleBatches ==
    UNION {[1..n -> SampleComments] : n \in 0..MaxItems}

\* The characters typed at the end of the last comment.
CommentAlphabet == {"a", "\n"}

QInit ==
    /\ pc = "off"
    /\ comments \in SampleBatches
    /\ out = <<>>
    /\ start = 0
    /\ futures = <<>>
    /\ ret = <<>>
    /\ reordered = FALSE
    /\ wlog = <<>>
    /\ calls = 0
    /\ ppc = "compose"
    /\ ptext = <<>>
    /\ pn = Len(comments)
    /\ pstrips = TRUE
    /\ ptyped = 0
    /\ pres = NoResult

\* The last comment of the batch grows by one character.
TypeComment(c) ==
    /\ ppc = "compose"
    /\ ptyped < MaxTyped
    /\ comments # <<>>
    /\ comments' = [comments EXCEPT ![Len(comments)] = Append(@, c)]
    /\ ptyped' = ptyped + 1
    /\ UNCHANGED <<pc, out, start, futures, ret, reordered, wlog, calls>>
    /\ UNCHANGED <<ppc, ptext, pn, pstrips, pres>>

\* analyze_batch runs on the batch; the remote call fails or answers with
\* an empty text.
SendBatch(o) ==
    /\ ppc = "compose"
    /\ pres' = analyze_batch(comments, o)
    /\ ppc' = "sent"
    /\ UNCHANGED dvars
    /\ UNCHANGED <<ptext, pn, pstrips, ptyped>>

QNext ==
    \/ \E c \in CommentAlphabet : TypeComment(c)
    \/ \E o \in {ApiErrorOutcome, [kind |-> "text", raw |-> <<>>, strips |-> TRUE]} :
          SendBatch(o)

PromptSpec == QInit /\ [][QNext]_vars

\* ------------------------------------------------------------ properties
\* The future that owns the 0-based position p.
OwnerOf(p) == (p \div BATCH_SIZE) + 1

\* The 0-based positions of the future f: start .. start + len - 1.
RangeOf(f) == f.start..(f.start + Len(f.batch) - 1)

\* The record the response named by f.env holds for position p, read off
\* the response itself: the tag of p and the first two subtags.
ResponseRecord(f, p) ==
    IF f.env = "good" \/ (f.env = "short" /\ p = f.start)
    THEN <<TagAt(p), SubAB>>
    ELSE EmptyRec

\* The record the call of f produced for its i-th (0-based) item.
Produced(f, i) == IF f.raised THEN EmptyRec ELSE f.result[i + 1]

AllFailed == \A b \in Indices : futures[b].env \in {"raise", "api_error"}

\* C1: analyze_all returns exactly as many records as it was given
\* comments, whatever the outcome of each batch, and the output list has
\* that length throughout the run.
C1_OutputLength ==
    /\ pc # "off" => Len(out) = total
    /\ pc = "returned" => Len(ret) = total

C1_Witness ==
    /\ pc = "returned"
    /\ total = 2 * BATCH_SIZE + 5
    /\ AllFailed
    /\ \E b \in Indices : futures[b].env = "raise"
    /\ Len(ret) = 2 * BATCH_SIZE + 5

\* The remote call failed for the future k and for no other future.
OnlyFailed(k) ==
    /\ futures[k].env = "api_error"
    /\ \A b \in Indices \ {k} : futures[b].env \in {"good", "short"}

\* C2: when the remote call fails for batch k only, the returned list holds
\* the empty record at every position of batch k and, at every other
\* position, the record of that position in its own batch's response.
C2_FailureIsolated ==
    pc = "returned" =>
        \A k \in Indices :
            OnlyFailed(k) =>
                \A p \in 0..(total - 1) :
                    ret[p + 1] = IF p \in RangeOf(futures[k]) THEN EmptyRec
                                 ELSE ResponseRecord(futures[OwnerOf(p)], p)

\* 45 comments, the second of three batches failed, the others parsed.
C2_Witness ==
    /\ pc = "returned"
    /\ total = 45
    /\ Len(futures) = 3
    /\ futures[1].env = "good" /\ futures[2].env = "api_error" /\ futures[3].env = "good"
    /\ \A p \in 0..19 : ret[p + 1] = <<TagAt(p), SubAB>>
    /\ \A p \in 20..39 : ret[p + 1] = EmptyRec
    /\ \A p \in 40..44 : ret[p + 1] = <<TagAt(p), SubAB>>
    /\ Len(ret) = 45

\* C3: whatever the order in which the futures complete and are collected,
\* position p of the returned list holds the record produced for item
\* p mod BATCH_SIZE of the batch that starts at p - (p mod BATCH_SIZE).
C3_OrderIndependent ==
    pc = "returned" =>
        \A p \in 0..(total - 1) :
            \E b \in Indices :
                /\ futures[b].start = p - (p % BATCH_SIZE)
                /\ ret[p + 1] = Produced(futures[b], p % BATCH_SIZE)

C3_Witness ==
    /\ pc = "returned"
    /\ reordered
    /\ Len(futures) = 3
    /\ \A b \in Indices : futures[b].env = "good"
    /\ \A p \in 0..(total - 1) : ret[p + 1] = <<TagAt(p), SubAB>>

RECURSIVE ConcatBatches(_)
ConcatBatches(fs) ==
    IF fs = <<>> THEN <<>> ELSE Head(fs).batch \o ConcatBatches(Tail(fs))

\* C4: the batches are contiguous slices of the input in input order, each
\* non-empty and of at most BATCH_SIZE comments, only the last one shorter;
\* once submission has ended there are ceil(N / BATCH_SIZE) of them and
\* their concatenation is the input.
C4_Partition ==
    /\ \A b \in Indices :
          /\ futures[b].start = (b - 1) * BATCH_SIZE
          /\ Len(futures[b].batch) >= 1
          /\ Len(futures[b].batch) <= BATCH_SIZE
          /\ b < Len(futures) => Len(futures[b].batch) = BATCH_SIZE
          /\ \A i \in 1..Len(futures[b].batch) :
                futures[b].batch[i] = comments[futures[b].start + i]
    /\ pc \in {"collect", "returned"} =>
          /\ Len(futures) = (total + BATCH_SIZE - 1) \div BATCH_SIZE
          /\ ConcatBatches(futures) = comments

C4_Witness ==
    /\ pc = "collect"
    /\ total = 45
    /\ Len(futures) = 3
    /\ Len(futures[1].batch) = 20 /\ Len(futures[2].batch) = 20
    /\ Len(futures[3].batch) = 5
    /\ ConcatBatches(futures) = comments

\* C5: for every response text and every number N of comments the parsing
\* part of analyze_batch raises nothing and returns exactly N records.
C5_ParserTotal ==
    ppc = "done" => (~pres.raised /\ Len(pres.value) = pn)

\* A single word for three comments.
C5_Witness ==
    /\ ppc = "done"
    /\ ptext = <<"a">>
    /\ pn = 3
    /\ pres.value = <<EmptyRec, EmptyRec, EmptyRec>>

KessaiRecord == <<Kessai, Credit \o <<",", " ">> \o Tento>>

\* C6 as claimed: the text without field labels yields the tags of line 1.
C6_Original ==
    (ppc = "done" /\ ptext = BareText /\ pn = 2) =>
        pres.value = <<KessaiRecord, EmptyRec>>

\* C6: for a 2-item batch the response in the format of the prompt,
\* "1. <main label>: 決済 | <sub label>: クレジット, 店頭受取\n2. garbage\n",
\* yields ("決済", "クレジット, 店頭受取") and the empty record; the same text
\* without the two field labels yields two empty records.
C6_Labelled ==
    /\ (ppc = "done" /\ ptext = LabelledText /\ pn = 2) =>
          pres.value = <<KessaiRecord, EmptyRec>>
    /\ (ppc = "done" /\ ptext = BareText /\ pn = 2) =>
          pres.value = <<EmptyRec, EmptyRec>>

C6_Witness ==
    /\ ppc = "done"
    /\ ptext = LabelledText
    /\ pn = 2
    /\ pres.value[1] = KessaiRecord

\* C7: analyze_all has returned only when every submitted batch has
\* completed and been collected; none is pending, in flight or uncollected,
\* whether or not another batch failed.
C7_ReturnsAfterAll ==
    pc = "returned" =>
        /\ Len(futures) = (total + BATCH_SIZE - 1) \div BATCH_SIZE
        /\ \A b \in Indices : futures[b].state = "Written"

C7_Witness ==
    /\ pc = "returned"
    /\ Len(futures) = 3
    /\ futures[1].env = "raise"
    /\ futures[2].env = "good"
    /\ futures[3].env = "api_error"
    /\ \A p \in 20..39 : ret[p + 1] = <<TagAt(p), SubAB>>

\* The steps of a batch unit.
LegalStep(s, t) ==
    \/ s = t
    \/ s = "Pending" /\ t = "Dispatched"
    \/ s = "Dispatched" /\ t \in {"Parsed", "Failed"}
    \/ s \in {"Parsed", "Failed"} /\ t = "Written"

\* Every unit is Written and every position of its range has been written.
AllWritten ==
    \A b \in Indices :
        /\ futures[b].state = "Written"
        /\ \A p \in RangeOf(futures[b]) : wlog[p + 1] # <<>>

\* C8: a submitted batch unit is never dropped and moves only
\* Pending -> Dispatched -> Parsed or Failed -> Written; every run ends,
\* and a run has ended only with every unit Written and its range written,
\* so every submitted unit eventually is Written.
C8_Lifecycle ==
    /\ [][/\ Len(futures') >= Len(futures)
          /\ \A b \in Indices : LegalStep(futures[b].state, futures'[b].state)
          /\ \A b \in (Len(futures) + 1)..Len(futures') : futures'[b].state = "Pending"]_vars
    /\ [](pc = "returned" => AllWritten)
    /\ <>[](pc = "returned" /\ AllWritten)

C8_Witness ==
    /\ pc = "returned"
    /\ Len(futures) = 3
    /\ futures[1].env = "good"
    /\ futures[2].env = "raise"
    /\ futures[3].env = "short"
    /\ \A b \in Indices : futures[b].state = "Written"

\* C9: every position is written at most once, for the future that owns
\* it, and exactly once when the run has returned; meanwhile it holds the
\* empty record or its final value.
C9_WrittenOnce ==
    \A p \in 0..(total - 1) :
        /\ Len(wlog[p + 1]) <= 1
        /\ wlog[p + 1] = <<>> => out[p + 1] = EmptyRec
        /\ wlog[p + 1] # <<>> =>
              /\ wlog[p + 1][1] = OwnerOf(p)
              /\ futures[OwnerOf(p)].state = "Written"
              /\ p \in RangeOf(futures[OwnerOf(p)])
              /\ out[p + 1] = Produced(futures[OwnerOf(p)], p - futures[OwnerOf(p)].start)
        /\ pc = "returned" => Len(wlog[p + 1]) = 1

C9_Witness ==
    /\ pc = "returned"
    /\ reordered
    /\ Len(futures) = 3
    /\ futures[1].env = "good"
    /\ futures[2].env = "raise"
    /\ futures[3].env = "good"
    /\ \A p \in 0..(total - 1) : Len(wlog[p + 1]) = 1

\* C10: at most MAX_WORKERS remote calls are in flight at any moment.
C10_BoundedInFlight == Cardinality(InFlight) <= MAX_WORKERS

\* Four calls in flight and a fifth batch waiting in the queue.
C10_Witness ==
    /\ Cardinality(InFlight) = MAX_WORKERS
    /\ \E b \in Indices : futures[b].state = "Pending"

\* The futures whose call of analyze_batch has ended.
Ended == {b \in Indices : futures[b].state \in {"Parsed", "Failed", "Written"}}

\* C11: every ended call of analyze_batch has issued one remote call, none
\* when it raised before the call, and never a second one after a failure;
\* a run issues at most one remote call per batch.
C11_SingleAttempt ==
    /\ calls = Cardinality({b \in Ended : futures[b].env # "raise"})
    /\ calls <= Len(futures)
    /\ Len(futures) <= (total + BATCH_SIZE - 1) \div BATCH_SIZE

\* Three batches: a failed call, an answered call, no call.
C11_Witness ==
    /\ pc = "returned"
    /\ Len(futures) = 3
    /\ futures[1].env = "api_error"
    /\ futures[2].env = "good"
    /\ futures[3].env = "raise"
    /\ calls = 2

\* The non-blank lines of the response of the parser run.
PLines == NonBlank(SplitLines(response_text([raw |-> ptext, strips |-> pstrips])))

\* The lines of the response that are parsed: at most pn.
PParsed == Min(Len(PLines), pn)

RecXP == << <<"x">>, <<"p">> >>
RecYQ == << <<"y">>, <<"q">> >>
RecZR == << <<"z">>, <<"r">> >>
RecAA == << <<"a">>, <<"a">> >>

\* The one line ".:a|:a".
OneLine == <<".", ":", "a", "|", ":", "a">>

\* C12: with fewer than N non-blank lines the records of the lines come
\* first, in line order, and empty records fill the list up to N; one line
\* for three items gives one parsed record and two empty ones.
C12_PaddedTail ==
    ppc = "done" =>
        /\ Len(PLines) < pn =>
              /\ Len(pres.value) = pn
              /\ \A i \in 1..Len(PLines) : pres.value[i] = parse_line(PLines[i]).rec
              /\ \A i \in (Len(PLines) + 1)..pn : pres.value[i] = EmptyRec
        /\ (ptext = OneLine /\ pn = 3) => pres.value = <<RecAA, EmptyRec, EmptyRec>>

C12_Witness ==
    /\ ppc = "done"
    /\ ptext = OneLine
    /\ pn = 3
    /\ pres.value = <<RecAA, EmptyRec, EmptyRec>>

\* A line with all its separators: a ".", a "|" after it, a ":" between the
\* two and a ":" after the "|".
HasFields(line) ==
    LET d == Find(line, ".", 1)
        b == IF d = 0 THEN 0 ELSE Find(line, "|", d + 1)
    IN  /\ d # 0
        /\ b # 0
        /\ \E k \in (d + 1)..(b - 1) : line[k] = ":"
        /\ \E k \in (b + 1)..Len(line) : line[k] = ":"

\* C15: a line without its ".", "|" or ":" gives the empty record for that
\* line alone; the record at index i always comes from the i-th non-blank
\* line, also after a line that failed.
C15_LineFailureLocal ==
    ppc = "done" =>
        /\ \A i \in 1..PParsed :
              pres.value[i] =
                  IF HasFields(PLines[i])
                  THEN <<split_fields(PLines[i]).main, split_fields(PLines[i]).sub>>
                  ELSE EmptyRec
        /\ (ptext = BrokenMiddle /\ pn = 3) => pres.value = <<RecXP, EmptyRec, RecZR>>

C15_Witness ==
    /\ ppc = "done"
    /\ ptext = BrokenMiddle
    /\ pn = 3
    /\ ~HasFields(PLines[2])
    /\ pres.value = <<RecXP, EmptyRec, RecZR>>

\* C16: with more than N non-blank lines the list has exactly N records,
\* those of the first N lines; no record comes from a later line.
C16_ExcessDiscarded ==
    ppc = "done" =>
        /\ Len(PLines) > pn =>
              /\ Len(pres.value) = pn
              /\ \A i \in 1..pn : pres.value[i] = parse_line(PLines[i]).rec
        /\ (ptext = ThreeLines /\ pn = 2) => pres.value = <<RecXP, RecYQ>>

C16_Witness ==
    /\ ppc = "done"
    /\ ptext = ThreeLines
    /\ pn = 2
    /\ Len(PLines) = 3
    /\ pres.value = <<RecXP, RecYQ>>

\* The line with the text before its first "." taken away.
Unnumbered(line) ==
    LET d == Find(line, ".", 1)
    IN  IF d = 0 THEN line ELSE SubSeq(line, d, Len(line))

\* C18: the record at index i comes from the i-th non-blank line whatever
\* number the line starts with: lines numbered 2, 1, 3 give their tags to
\* items 0, 1, 2, and when the line of item 1 is missing every record
\* moves one item up.
C18_LineOrderOnly ==
    ppc = "done" =>
        /\ \A i \in 1..PParsed :
              pres.value[i] = parse_line(Unnumbered(PLines[i])).rec
        /\ (ptext = ThreeLines /\ pn = 3) => pres.value = <<RecXP, RecYQ, RecZR>>
        /\ (ptext = OmittedFirst /\ pn = 3) => pres.value = <<RecYQ, RecZR, EmptyRec>>

C18_Witness ==
    /\ ppc = "done"
    /\ ptext = ThreeLines
    /\ pn = 3
    /\ PLines[1][1] = "2"
    /\ pres.value[1] = RecXP

\* The range the except branch of the loop clears for the future f.
ExceptRange(f) == f.start..(Min(f.start + BATCH_SIZE, total) - 1)

\* C14: when a batch's call raised, the loop iteration that collects it
\* writes the empty record to start .. min(start + BATCH_SIZE, N) - 1, once
\* each, and touches no other position; the run still returns, with every
\* position holding what its own batch produced.
C14_RaiseContained ==
    /\ [][\A b \in Indices :
            (futures[b].state = "Failed" /\ futures[b].raised
                /\ futures'[b].state = "Written") =>
                \A p \in 0..(total - 1) :
                    IF p \in ExceptRange(futures[b])
                    THEN /\ out'[p + 1] = EmptyRec
                         /\ wlog'[p + 1] = Append(wlog[p + 1], b)
                    ELSE /\ out'[p + 1] = out[p + 1]
                         /\ wlog'[p + 1] = wlog[p + 1]]_vars
    /\ [](pc = "returned" =>
            \A b \in Indices : \A p \in RangeOf(futures[b]) :
                ret[p + 1] = Produced(futures[b], p - futures[b].start))
    /\ <>(pc = "returned")

\* The last of three batches raised; the first two were collected after it.
C14_Witness ==
    /\ pc = "returned"
    /\ total = 45
    /\ reordered
    /\ futures[1].env = "good" /\ futures[2].env = "good" /\ futures[3].env = "raise"
    /\ \A p \in 0..39 : ret[p + 1] = <<TagAt(p), SubAB>>
    /\ \A p \in 40..44 : ret[p + 1] = EmptyRec /\ wlog[p + 1] = <<3>>

\* C19: the output list is written only in a step of the as_completed
\* loop, for one yielded future at a time; a step of a pool thread (a call
\* starting or ending) leaves the output list, the input list and every
\* submitted slice as they are.
C19_CollectorWrites ==
    [][/\ (out' # out \/ wlog' # wlog) =>
              /\ pc = "collect" /\ pc' = "collect"
              /\ \E b \in Indices :
                    /\ completed(futures[b])
                    /\ futures' = [futures EXCEPT ![b].state = "Written"]
       /\ (\E b \in Indices :
              /\ futures[b].state \in {"Pending", "Dispatched"}
              /\ futures'[b].state # futures[b].state) =>
              /\ out' = out /\ wlog' = wlog /\ comments' = comments
              /\ \A a \in Indices :
                    /\ futures'[a].batch = futures[a].batch
                    /\ futures'[a].start = futures[a].start]_vars

\* A result has been written while another call is still in flight.
C19_Witness ==
    /\ pc = "collect"
    /\ InFlight # {}
    /\ \E b \in Indices :
          /\ futures[b].state = "Written"
          /\ out[futures[b].start + 1] # EmptyRec
          /\ wlog[futures[b].start + 1] = <<b>>

\* The part of the prompt between its first lines and its format note.
PromptBody ==
    SubSeq(pres.prompt, Len(PromptHead) + 1, Len(pres.prompt) - Len(PromptTail))

\* The lines of the enumerated part, and the rest after its last "\n".
BodyParts == SplitAll(PromptBody, "\n")

\* The text of the i-th line after its number.
SnippetIn(i) ==
    SubSeq(BodyParts[i], Len(Digits(i)) + 3, Len(BodyParts[i]))

\* C17: the prompt enumerates the batch in one line per item, numbered
\* 1..len(batch) in batch order; the text of line i is the first 200
\* characters of item i with every newline turned into a space; the items
\* themselves stay as they were.
C17_PromptLines ==
    /\ [](ppc = "sent" =>
            LET parts == BodyParts
            IN  /\ SubSeq(pres.prompt, 1, Len(PromptHead)) = PromptHead
                /\ SubSeq(pres.prompt, Len(pres.prompt) - Len(PromptTail) + 1,
                          Len(pres.prompt)) = PromptTail
                /\ Len(parts) = Len(comments) + 1
                /\ parts[Len(parts)] = <<>>
                /\ \A i \in 1..Len(comments) :
                      LET line == parts[i]
                          c == comments[i]
                          s == SubSeq(line, Len(Digits(i)) + 3, Len(line))
                      IN  /\ SubSeq(line, 1, Len(Digits(i)) + 2)
                                = Digits(i) \o <<".", " ">>
                          /\ Len(s) = Min(Len(c), SNIPPET_LEN)
                          /\ \A k \in 1..Len(s) :
                                /\ s[k] # "\n"
                                /\ s[k] = IF c[k] = "\n" THEN " " ELSE c[k])
    /\ [][ppc' = "sent" => comments' = comments]_vars

\* The long comment and the comment with newlines, in that order.
C17_Witness ==
    /\ ppc = "sent"
    /\ comments = <<SampleLong, SampleLines>>
    /\ Len(SnippetIn(1)) = 200
    /\ SnippetIn(1)[199] = " " /\ SnippetIn(1)[200] = "y"
    /\ SnippetIn(2) = <<"a", " ", " ", "b", " ">>

=============================================================================
